---------------------------- MODULE Spec2Model ----------------------------
(***************************************************************************)
(* Model of analyze_template.py: the template inspector opens the workbook *)
(* 'prueba2.xlsx', reads rows 1 and 2 of the active sheet, prints the      *)
(* headers as JSON, pairs headers with the sample row, converts date/time  *)
(* values to ISO text and prints the sample record as JSON.  Every         *)
(* statement of the try block is one action; the imports and the except    *)
(* clause are one action each.                                             *)
(***************************************************************************)
EXTENDS Integers, Sequences, FiniteSets, TLC

VARIABLES
  file,         \* the workbook on disk: failure condition, max_row, rows 1 and 2
  pc,           \* the statement the script is about to execute
  sheet,        \* wb.active: <<>> before line 6, <<row 1, row 2>> after
  headers,      \* line 8
  row_data,     \* lines 10-12
  sample,       \* line 18: the dict, as a sequence of <<key, value>> in insertion order
  it,           \* position of the iterator of line 20 in sample.items()
  out,          \* standard output: the texts printed so far, one per print call
  e,            \* the exception bound by line 26, NoExc when none was raised
  exit_status,  \* -1 while the process runs, then the exit status
  importable    \* the environment: whether lines 1-2 find openpyxl and json

vars == <<file, importable, pc, sheet, headers, row_data, sample, it, out,
          e, exit_status>>

\* ------------------------------------------------------------- bounds

\* longest row of the sheets whose cells hold the kinds of one of Mixes
MaxCols == 2

\* longest row of the sheets whose cells hold any of CellValues
MaxColsAnyKind == 1

\* ------------------------------------------------------------- cell values

\* A cell value as the reader hands it over: its Python type and its payload.
\* text: the code points of a str; num: the value of an int or a bool, the
\* tenths of a float; dt: the fields of a datetime, date, time or timedelta.
PyNone == [type |-> "NoneType", text |-> <<>>, num |-> 0, dt |-> <<>>]

PyStr(s) == [type |-> "str", text |-> s, num |-> 0, dt |-> <<>>]

PyInt(n) == [type |-> "int", text |-> <<>>, num |-> n, dt |-> <<>>]

PyBool(b) == [type |-> "bool", text |-> <<>>, num |-> IF b THEN 1 ELSE 0, dt |-> <<>>]

\* a float with one decimal: PyFloat(15) is 1.5, PyFloat(10) is 1.0
PyFloat(t) == [type |-> "float", text |-> <<>>, num |-> t, dt |-> <<>>]

\* datetime.datetime(year, month, day, hour, minute, second), microsecond 0, naive
PyDatetime(t) == [type |-> "datetime", text |-> <<>>, num |-> 0, dt |-> t]

\* datetime.date(year, month, day)
PyDate(t) == [type |-> "date", text |-> <<>>, num |-> 0, dt |-> t]

\* datetime.time(hour, minute, second), microsecond 0, naive
PyTime(t) == [type |-> "time", text |-> <<>>, num |-> 0, dt |-> t]

\* datetime.timedelta(seconds=n): the value of a duration cell
PyTimedelta(n) == [type |-> "timedelta", text |-> <<>>, num |-> 0, dt |-> <<n>>]

\* empty, text ('A' and 'a"e' with an acute accent), number, boolean, date/time
\* and duration cells
CellValues ==
  { PyNone, PyStr(<<65>>), PyStr(<<97, 34, 233>>), PyInt(1), PyBool(TRUE),
    PyFloat(10), PyFloat(15), PyDatetime(<<2024, 1, 15, 10, 30, 0>>),
    PyDate(<<2024, 1, 15>>), PyTime(<<10, 30, 0>>), PyTimedelta(3600) }

\* the kinds of values found together in the sheets of more than MaxColsAnyKind
\* columns: numeric keys; empty, text, number and date/time; dates, times and
\* durations; text that needs escapes
Mixes ==
  { { PyNone, PyStr(<<65>>), PyInt(1), PyBool(TRUE),
      PyDatetime(<<2024, 1, 15, 10, 30, 0>>) },
    { PyStr(<<65>>), PyInt(1), PyBool(TRUE), PyFloat(10), PyFloat(15) },
    { PyNone, PyStr(<<65>>), PyDate(<<2024, 1, 15>>), PyTime(<<10, 30, 0>>),
      PyTimedelta(3600) },
    { PyNone, PyStr(<<65>>), PyStr(<<97, 34, 233>>), PyBool(TRUE),
      PyDate(<<2024, 1, 15>>) } }

\* the rows of at most n cells with values in S
Rows(S, n) == UNION { [1..k -> S] : k \in 0..n }

\* what sheet[2] yields on a sheet whose row 2 holds nothing: empty cells
EmptyRow(n) == [i \in 1..n |-> PyNone]

\* ------------------------------------------------------------- text conversions

Digit(d) == CASE d = 0 -> "0" [] d = 1 -> "1" [] d = 2 -> "2" [] d = 3 -> "3"
              [] d = 4 -> "4" [] d = 5 -> "5" [] d = 6 -> "6" [] d = 7 -> "7"
              [] d = 8 -> "8" [] d = 9 -> "9"

\* '%02d' % n, as code points
Pad2(n) == <<48 + ((n \div 10) % 10), 48 + (n % 10)>>

\* '%04d' % n, as code points
Pad4(n) == Pad2(n \div 100) \o Pad2(n % 100)

RECURSIVE NatRepr(_)
NatRepr(n) == IF n < 10 THEN Digit(n) ELSE NatRepr(n \div 10) \o Digit(n % 10)

\* int.__repr__
IntRepr(n) == IF n < 0 THEN "-" \o NatRepr(-n) ELSE NatRepr(n)

\* float.__repr__ of a float given in tenths
FloatRepr(t) ==
  IF t < 0 THEN "-" \o NatRepr((-t) \div 10) \o "." \o Digit((-t) % 10)
  ELSE NatRepr(t \div 10) \o "." \o Digit(t % 10)

\* hasattr(v, 'isoformat'), line 21: datetime, date and time have the method
HasIsoformat(v) == v.type \in {"datetime", "date", "time"}

\* 'YYYY-MM-DD'
IsoDate(y, m, d) == Pad4(y) \o <<45>> \o Pad2(m) \o <<45>> \o Pad2(d)

\* 'HH:MM:SS'
IsoTime(h, m, s) == Pad2(h) \o <<58>> \o Pad2(m) \o <<58>> \o Pad2(s)

\* str(v) in place of v.isoformat(): a space where ISO-8601 has the 'T'
isoformat_str(v) ==
  CASE v.type = "datetime" ->
         PyStr(IsoDate(v.dt[1], v.dt[2], v.dt[3]) \o <<32>>
               \o IsoTime(v.dt[4], v.dt[5], v.dt[6]))
    [] v.type = "date" -> PyStr(IsoDate(v.dt[1], v.dt[2], v.dt[3]))
    [] v.type = "time" -> PyStr(IsoTime(v.dt[1], v.dt[2], v.dt[3]))

\* v.isoformat(), line 22: 'YYYY-MM-DDTHH:MM:SS', 'YYYY-MM-DD' or 'HH:MM:SS' as a str
isoformat(v) ==
  CASE v.type = "datetime" ->
         PyStr(IsoDate(v.dt[1], v.dt[2], v.dt[3]) \o <<84>>
               \o IsoTime(v.dt[4], v.dt[5], v.dt[6]))
    [] v.type = "date" -> PyStr(IsoDate(v.dt[1], v.dt[2], v.dt[3]))
    [] v.type = "time" -> PyStr(IsoTime(v.dt[1], v.dt[2], v.dt[3]))

\* ------------------------------------------------------------- json.dumps

\* the result of a call: the value returned, or the message of the exception raised
Ok(t) == [ok |-> TRUE, text |-> t]

Raise(m) == [ok |-> FALSE, text |-> m]

\* json encodes str, int, float, bool and None; any other object has no encoding
Serializable(v) == v.type \in {"str", "int", "float", "bool", "NoneType"}

\* the grave accent, code 96: a string literal holds it only before an
\* apostrophe, so it is cut out of such a literal
GraveAccent == SubSeq("`'", 1, 1)

\* the characters ' ' to '~', codes 32 to 126
Printable ==
  <<
     " ", "!", "\"", "#", "$", "%", "&", "'", "(", ")", "*", "+",
     ",", "-", ".", "/", "0", "1", "2", "3", "4", "5", "6", "7",
     "8", "9", ":", ";", "<", "=", ">", "?", "@", "A", "B", "C",
     "D", "E", "F", "G", "H", "I", "J", "K", "L", "M", "N", "O",
     "P", "Q", "R", "S", "T", "U", "V", "W", "X", "Y", "Z", "[",
     "\\", "]", "^", "_", GraveAccent, "a", "b", "c", "d", "e", "f", "g",
     "h", "i", "j", "k", "l", "m", "n", "o", "p", "q", "r", "s",
     "t", "u", "v", "w", "x", "y", "z", "{", "|", "}", "~"
  >>

HexDigit(d) ==
  CASE d < 10 -> Digit(d) [] d = 10 -> "a" [] d = 11 -> "b" [] d = 12 -> "c"
    [] d = 13 -> "d" [] d = 14 -> "e" [] d = 15 -> "f"

\* '\\u{0:04x}'
UEscape(n) ==
  "\\u" \o HexDigit((n \div 4096) % 16) \o HexDigit((n \div 256) % 16)
        \o HexDigit((n \div 16) % 16) \o HexDigit(n % 16)

\* ensure_ascii: quote, backslash and everything outside ' '..'~' are escaped
EscapeChar(c) ==
  CASE c = 34 -> "\\\""
    [] c = 92 -> "\\\\"
    [] c = 8 -> "\\b"
    [] c = 12 -> "\\f"
    [] c = 10 -> "\\n"
    [] c = 13 -> "\\r"
    [] c = 9 -> "\\t"
    [] c >= 32 /\ c <= 126 /\ c \notin {34, 92} -> Printable[c - 31]
    [] (c < 32 /\ c \notin {8, 9, 10, 12, 13}) \/ (c > 126 /\ c < 65536) -> UEscape(c)
    [] c >= 65536 ->
         UEscape(55296 + (((c - 65536) \div 1024) % 1024))
         \o UEscape(56320 + ((c - 65536) % 1024))

RECURSIVE EscapeChars(_)
EscapeChars(cs) ==
  IF cs = <<>> THEN "" ELSE EscapeChar(Head(cs)) \o EscapeChars(Tail(cs))

\* the JSON text of a str
EncodeString(cs) == "\"" \o EscapeChars(cs) \o "\""

\* the JSON text of a scalar
EncodeValue(v) ==
  CASE v.type = "str" -> EncodeString(v.text)
    [] v.type = "NoneType" -> "null"
    [] v.type = "bool" -> (IF v.num = 1 THEN "true" ELSE "false")
    [] v.type = "int" -> IntRepr(v.num)
    [] v.type = "float" -> FloatRepr(v.num)

\* the JSON text of a dict key: keys are coerced to strings
EncodeKey(k) ==
  CASE k.type = "str" -> EncodeString(k.text)
    [] k.type = "float" -> "\"" \o FloatRepr(k.num) \o "\""
    [] k.type = "bool" -> (IF k.num = 1 THEN "\"true\"" ELSE "\"false\"")
    [] k.type = "NoneType" -> "\"null\""
    [] k.type = "int" -> "\"" \o IntRepr(k.num) \o "\""

RECURSIVE JoinItems(_)
JoinItems(ts) ==
  IF Len(ts) = 1 THEN ts[1] ELSE ts[1] \o ",\n  " \o JoinItems(Tail(ts))

\* json.dumps(headers, indent=2), line 15
dumps_list(xs) ==
  IF \E i \in 1..Len(xs) : ~Serializable(xs[i])
  THEN LET i == CHOOSE j \in 1..Len(xs) :
                  /\ ~Serializable(xs[j])
                  /\ \A h \in 1..(j - 1) : Serializable(xs[h])
       IN Raise("Object of type " \o xs[i].type \o " is not JSON serializable")
  ELSE IF xs = <<>> THEN Ok("[]")
  ELSE Ok("[\n  " \o JoinItems([i \in 1..Len(xs) |-> EncodeValue(xs[i])]) \o "\n]")

\* what encoding the i-th item of a dict raises, "" when it encodes
ItemError(d, i) ==
  IF ~Serializable(d[i][1])
  THEN "keys must be str, int, float, bool or None, not " \o d[i][1].type
  ELSE IF ~Serializable(d[i][2])
  THEN "Object of type " \o d[i][2].type \o " is not JSON serializable"
  ELSE ""

\* json.dumps(sample, indent=2), line 24
dumps_dict(d) ==
  IF \E i \in 1..Len(d) : ItemError(d, i) # ""
  THEN LET i == CHOOSE j \in 1..Len(d) :
                  /\ ItemError(d, j) # ""
                  /\ \A h \in 1..(j - 1) : ItemError(d, h) = ""
       IN Raise(ItemError(d, i))
  ELSE IF d = <<>> THEN Ok("{}")
  ELSE Ok("{\n  "
          \o JoinItems([i \in 1..Len(d) |->
                          EncodeKey(d[i][1]) \o ": " \o EncodeValue(d[i][2])])
          \o "\n}")

\* ------------------------------------------------------------- dict(zip(...))

\* ten times the value of a number
Tenths(k) == IF k.type = "float" THEN k.num ELSE 10 * k.num

\* k1 == k2 and hash(k1) == hash(k2): the two values are the same dict key.
\* Numbers compare by value: True, 1 and 1.0 are one key.
KeyEq(k1, k2) ==
  \/ k1 = k2
  \/ /\ k1.type \in {"int", "bool", "float"}
     /\ k2.type \in {"int", "bool", "float"}
     /\ Tenths(k1) = Tenths(k2)

\* d.setdefault(k, v) in place of d[k] = v: the first value stays
dict_setdefault(d, k, v) ==
  IF \E i \in 1..Len(d) : KeyEq(d[i][1], k) THEN d ELSE Append(d, <<k, v>>)

\* d[k] = v: an existing key keeps its place and its key object, a new key goes last
dict_set(d, k, v) ==
  IF \E i \in 1..Len(d) : KeyEq(d[i][1], k)
  THEN [i \in 1..Len(d) |-> IF KeyEq(d[i][1], k) THEN <<d[i][1], v>> ELSE d[i]]
  ELSE Append(d, <<k, v>>)

Min(a, b) == IF a < b THEN a ELSE b

RECURSIVE dict_zip_upto(_, _, _)
dict_zip_upto(ks, vs, n) ==
  IF n = 0 THEN <<>> ELSE dict_set(dict_zip_upto(ks, vs, n - 1), ks[n], vs[n])

Max(a, b) == IF a < b THEN b ELSE a

\* itertools.zip_longest in place of zip: the shorter sequence is padded with None
dict_zip_longest(ks, vs) ==
  LET n == Max(Len(ks), Len(vs))
  IN dict_zip_upto([i \in 1..n |-> IF i <= Len(ks) THEN ks[i] ELSE PyNone],
                   [i \in 1..n |-> IF i <= Len(vs) THEN vs[i] ELSE PyNone], n)

\* dict(zip(headers, row_data)), line 18
dict_zip(ks, vs) == dict_zip_upto(ks, vs, Min(Len(ks), Len(vs)))

\* ------------------------------------------------------------- exceptions

\* the base class of each exception class
Base(cls) ==
  CASE cls = "Exception" -> "BaseException"
    [] cls = "KeyboardInterrupt" -> "BaseException"
    [] cls = "SystemExit" -> "BaseException"
    [] cls = "GeneratorExit" -> "BaseException"
    [] cls = "OSError" -> "Exception"
    [] cls = "FileNotFoundError" -> "OSError"
    [] cls = "PermissionError" -> "OSError"
    [] cls = "ImportError" -> "Exception"
    [] cls = "ModuleNotFoundError" -> "ImportError"
    [] cls = "LookupError" -> "Exception"
    [] cls = "KeyError" -> "LookupError"
    [] cls = "ValueError" -> "Exception"
    [] cls = "TypeError" -> "Exception"
    [] cls = "BadZipFile" -> "Exception"
    [] cls = "InvalidFileException" -> "Exception"

RECURSIVE IsSubclass(_, _)
IsSubclass(cls, of) ==
  \/ cls = of
  \/ cls # "BaseException" /\ IsSubclass(Base(cls), of)

\* an exception: its class, str(e) and, for a SystemExit, its code attribute
\* (None on every other exception)
Exc(cls, msg) == [cls |-> cls, msg |-> msg, code |-> PyNone]

\* a SystemExit: msg is str(e), the empty text for SystemExit() and str(code)
\* for SystemExit(code); code is its code attribute
SystemExit(msg, code) == [cls |-> "SystemExit", msg |-> msg, code |-> code]

NoExc == Exc("", "")

\* How the process ends on an exception that no except clause catches.
\* SystemExit: the interpreter exits in silence with its code, None as 0, an int
\* modulo 256, any other object printed on standard error and status 1.
\* KeyboardInterrupt: a traceback, then the process ends by the signal SIGINT,
\* which a shell reports as status 130 (128 + 2).  Any other exception: a
\* traceback and status 1.
UncaughtStatus(x) ==
  CASE x.cls = "SystemExit" ->
         (CASE x.code.type = "NoneType" -> 0
            [] x.code.type \in {"int", "bool"} -> x.code.num % 256
            [] OTHER -> 1)
    [] x.cls = "KeyboardInterrupt" -> 130
    [] OTHER -> 1

\* ------------------------------------------------------------- the workbook file

\* the reader calls that may raise
Faults == {"load_workbook", "active", "row1", "max_row", "row2"}

\* what the reader raises on a file that is absent, unreadable, corrupt or of
\* an unsupported format
Exceptions ==
  { Exc("FileNotFoundError", "[Errno 2] No such file or directory: 'prueba2.xlsx'"),
    Exc("PermissionError", "[Errno 13] Permission denied: 'prueba2.xlsx'"),
    Exc("BadZipFile", "File is not a zip file"),
    Exc("InvalidFileException", "openpyxl does not support .xls file format"),
    Exc("KeyError", "\"There is no item named 'xl/workbook.xml' in the archive\""),
    Exc("OSError", "File contains no valid workbook part"),
    Exc("ValueError", "Value must be one of a set"),
    Exc("TypeError", "'NoneType' object is not subscriptable") }

\* a workbook that opens: max_row and the cells of rows 1 and 2 of its active sheet
Readable(S, n) ==
  { [fault |-> "none", exc |-> NoExc, max_row |-> 1, row1 |-> r1,
     row2 |-> EmptyRow(Len(r1))] : r1 \in Rows(S, n) }
  \cup
  { [fault |-> "none", exc |-> NoExc, max_row |-> 2, row1 |-> r1, row2 |-> r2] :
      r1 \in Rows(S, n), r2 \in Rows(S, n) }

\* a file that is absent, corrupt, unsupported or unreadable: the call that fails
Unreadable ==
  { [fault |-> f, exc |-> x, max_row |-> 2, row1 |-> r, row2 |-> r] :
      f \in Faults, x \in Exceptions,
      r \in {<<PyStr(<<65>>)>>, <<PyDatetime(<<2024, 1, 15, 10, 30, 0>>)>>} }

\* the file is one of the workbooks explored
IsFile(f) ==
  \/ f \in Readable(CellValues, MaxColsAnyKind)
  \/ \E S \in Mixes : f \in Readable(S, MaxCols)
  \/ f \in Unreadable

\* ------------------------------------------------------------- the script

\* the interpreter starts the script: nothing is bound, nothing is printed
Start ==
  /\ pc = "import"
  /\ sheet = <<>>
  /\ headers = <<>>
  /\ row_data = <<>>
  /\ sample = <<>>
  /\ it = 0
  /\ out = <<>>
  /\ e = NoExc
  /\ exit_status = -1

Init ==
  /\ IsFile(file)
  /\ importable \in BOOLEAN
  /\ Start

\* lines 1-2: import openpyxl; import json.  They stand outside the try block:
\* a failing import is caught by no clause and ends the script with a traceback
\* on standard error.
Import ==
  /\ pc = "import"
  /\ IF importable
     THEN /\ pc' = "load_workbook"
          /\ UNCHANGED <<e, exit_status>>
     ELSE /\ pc' = "done"
          /\ e' = Exc("ModuleNotFoundError", "No module named 'openpyxl'")
          /\ exit_status' =
               UncaughtStatus(Exc("ModuleNotFoundError", "No module named 'openpyxl'"))
  /\ UNCHANGED <<file, importable, sheet, headers, row_data, sample,
                 it, out>>

\* a statement of the try block raises x: control goes to line 26
Throw(x) ==
  /\ pc' = "except"
  /\ e' = x
  /\ UNCHANGED <<sheet, headers, row_data, sample, it, out, exit_status>>

\* print("HEADERS:") placed before the workbook is opened
LoadWorkbook_AfterLabel ==
  /\ pc = "load_workbook"
  /\ IF file.fault = "load_workbook"
     THEN /\ pc' = "except"
          /\ e' = file.exc
          /\ out' = Append(out, "HEADERS:")
          /\ UNCHANGED <<sheet, headers, row_data, sample, it, exit_status>>
     ELSE /\ pc' = "active"
          /\ out' = Append(out, "HEADERS:")
          /\ UNCHANGED <<sheet, headers, row_data, sample, it, e, exit_status>>
  /\ UNCHANGED <<file, importable>>

\* line 5: wb = openpyxl.load_workbook('prueba2.xlsx')
LoadWorkbook ==
  /\ pc = "load_workbook"
  /\ IF file.fault = "load_workbook"
     THEN Throw(file.exc)
     ELSE /\ pc' = "active"
          /\ UNCHANGED <<sheet, headers, row_data, sample, it, out, e, exit_status>>
  /\ UNCHANGED <<file, importable>>

\* line 6: sheet = wb.active
SelectActive ==
  /\ pc = "active"
  /\ IF file.fault = "active"
     THEN Throw(file.exc)
     ELSE /\ pc' = "headers"
          /\ sheet' = <<file.row1, file.row2>>
          /\ UNCHANGED <<headers, row_data, sample, it, out, e, exit_status>>
  /\ UNCHANGED <<file, importable>>

\* line 8: headers = [cell.value for cell in sheet[1]]
ReadHeaders ==
  /\ pc = "headers"
  /\ IF file.fault = "row1"
     THEN Throw(file.exc)
     ELSE /\ pc' = "row_data"
          /\ headers' = sheet[1]
          /\ UNCHANGED <<sheet, row_data, sample, it, out, e, exit_status>>
  /\ UNCHANGED <<file, importable>>

\* row 2 read without the test of max_row
ReadRowData_NoGuard ==
  /\ pc = "row_data"
  /\ IF file.fault \in {"max_row", "row2"}
     THEN Throw(file.exc)
     ELSE /\ pc' = "print_headers_label"
          /\ row_data' = sheet[2]
          /\ UNCHANGED <<sheet, headers, sample, it, out, e, exit_status>>
  /\ UNCHANGED <<file, importable>>

\* lines 10-12: row_data = []; if sheet.max_row >= 2: row_data = [... sheet[2]]
ReadRowData ==
  /\ pc = "row_data"
  /\ IF file.fault = "max_row" \/ (file.fault = "row2" /\ file.max_row >= 2)
     THEN Throw(file.exc)
     ELSE /\ pc' = "print_headers_label"
          /\ row_data' = IF file.max_row >= 2 THEN sheet[2] ELSE <<>>
          /\ UNCHANGED <<sheet, headers, sample, it, out, e, exit_status>>
  /\ UNCHANGED <<file, importable>>

\* line 14: print("HEADERS:")
PrintHeadersLabel ==
  /\ pc = "print_headers_label"
  /\ out' = Append(out, "HEADERS:")
  /\ pc' = "print_headers"
  /\ UNCHANGED <<file, importable, sheet, headers, row_data, sample,
                 it, e, exit_status>>

\* line 15: print(json.dumps(headers, indent=2))
PrintHeaders ==
  /\ pc = "print_headers"
  /\ LET r == dumps_list(headers)
     IN IF r.ok
        THEN /\ out' = Append(out, r.text)
             /\ pc' = "print_sample_label"
             /\ UNCHANGED <<sheet, headers, row_data, sample, it, e, exit_status>>
        ELSE Throw(Exc("TypeError", r.text))
  /\ UNCHANGED <<file, importable>>

\* print("SAMPLE ROW:") without the leading line break
PrintSampleLabel_NoBlank ==
  /\ pc = "print_sample_label"
  /\ out' = Append(out, "SAMPLE ROW:")
  /\ pc' = "zip"
  /\ UNCHANGED <<file, importable, sheet, headers, row_data, sample,
                 it, e, exit_status>>

\* line 17: print("\nSAMPLE ROW:"): an empty line, then the label line
PrintSampleLabel ==
  /\ pc = "print_sample_label"
  /\ out' = out \o <<"", "SAMPLE ROW:">>
  /\ pc' = "zip"
  /\ UNCHANGED <<file, importable, sheet, headers, row_data, sample,
                 it, e, exit_status>>

\* line 18: sample = dict(zip(headers, row_data))
BuildSample ==
  /\ pc = "zip"
  /\ sample' = dict_zip(headers, row_data)
  /\ it' = 1
  /\ pc' = "for"
  /\ UNCHANGED <<file, importable, sheet, headers, row_data, out, e,
                 exit_status>>

\* del sample[k] before the assignment: the converted entry moves to the end
normalize_reinsert(d, i) ==
  IF HasIsoformat(d[i][2])
  THEN Append([j \in 1..(Len(d) - 1) |-> IF j < i THEN d[j] ELSE d[j + 1]],
              <<d[i][1], isoformat(d[i][2])>>)
  ELSE d

\* the body of the loop for the item (k, v): lines 21-22
normalize(d, i) ==
  IF HasIsoformat(d[i][2]) THEN dict_set(d, d[i][1], isoformat(d[i][2])) ELSE d

\* lines 20-22: one iteration of for k, v in sample.items(), or its end
Normalize ==
  /\ pc = "for"
  /\ IF it <= Len(sample)
     THEN /\ sample' = normalize(sample, it)
          /\ it' = it + 1
          /\ pc' = "for"
     ELSE /\ pc' = "print_sample"
          /\ UNCHANGED <<sample, it>>
  /\ UNCHANGED <<file, importable, sheet, headers, row_data, out, e,
                 exit_status>>

\* line 24: print(json.dumps(sample, indent=2)); the script then ends
PrintSample ==
  /\ pc = "print_sample"
  /\ LET r == dumps_dict(sample)
     IN IF r.ok
        THEN /\ out' = Append(out, r.text)
             /\ pc' = "done"
             /\ exit_status' = 0
             /\ UNCHANGED <<sheet, headers, row_data, sample, it, e>>
        ELSE Throw(Exc("TypeError", r.text))
  /\ UNCHANGED <<file, importable>>

\* line 26: except Exception as e
Caught(x) == IsSubclass(x.cls, "Exception")

\* lines 26-27: print(f"Error: {e}") and the script ends normally; an exception
\* that line 26 does not catch leaves the try statement and ends the process
Except ==
  /\ pc = "except"
  /\ IF Caught(e)
     THEN /\ out' = Append(out, "Error: " \o e.msg)
          /\ exit_status' = 0
     ELSE /\ exit_status' = UncaughtStatus(e)
          /\ UNCHANGED out
  /\ pc' = "done"
  /\ UNCHANGED <<file, importable, sheet, headers, row_data, sample,
                 it, e>>

Next ==
  \/ Import
  \/ LoadWorkbook
  \/ SelectActive
  \/ ReadHeaders
  \/ ReadRowData
  \/ PrintHeadersLabel
  \/ PrintHeaders
  \/ PrintSampleLabel
  \/ BuildSample
  \/ Normalize
  \/ PrintSample
  \/ Except

Spec == Init /\ [][Next]_vars

\* ------------------------------------------------------------- claims

\* the five output events of the report, for the headers and the record at hand
Report ==
  <<"HEADERS:", dumps_list(headers).text, "", "SAMPLE ROW:", dumps_dict(sample).text>>

\* the single line printed on failure
ErrorLine == <<"Error: " \o e.msg>>

\* the pairs (H[i], R[i]) up to the shorter length, in column order
Pairs(H, R) == [i \in 1..Min(Len(H), Len(R)) |-> <<H[i], R[i]>>]

\* the number of header positions paired with a sample value
NumPaired == Min(Len(headers), Len(row_data))

\* two paired header positions hold the same mapping key
HasDuplicate ==
  \E i, j \in 1..NumPaired : i < j /\ KeyEq(headers[i], headers[j])

\* the last paired position that holds the same key as position i
LastPos(i) ==
  CHOOSE j \in 1..NumPaired :
    /\ KeyEq(headers[j], headers[i])
    /\ \A h \in (j + 1)..NumPaired : ~KeyEq(headers[h], headers[i])

\* line 18 has just run
JustZipped == pc = "for" /\ it = 1

\* the str 'A'
StrA == [type |-> "str", text |-> <<65>>, num |-> 0, dt |-> <<>>]

\* the ISO-8601 texts of the date/time values of CellValues:
\* '2024-01-15T10:30:00', '2024-01-15' and '10:30:00'
IsoText(v) ==
  CASE v.type = "datetime" -> <<50, 48, 50, 52, 45, 48, 49, 45, 49, 53, 84, 49, 48, 58, 51, 48, 58, 48, 48>>
    [] v.type = "date" -> <<50, 48, 50, 52, 45, 48, 49, 45, 49, 53>>
    [] v.type = "time" -> <<49, 48, 58, 51, 48, 58, 48, 48>>

\* C1: when a run that entered the try block has ended, its output is either
\* the complete report (HEADERS: label, headers array, blank line, SAMPLE ROW:
\* label, sample object) or the single line 'Error: <message>'; never part of
\* the report followed by an error.
C1_ReportOrErrorLine ==
  (pc = "done" /\ importable) =>
    \/ e = NoExc /\ out = Report
    \/ e # NoExc /\ out = ErrorLine

\* C2: when opening the workbook, selecting the active sheet or reading row 1 or
\* row 2 fails, nothing has been printed when the failure is raised, and the run
\* ends having printed exactly the line 'Error: <message>': neither 'HEADERS:'
\* nor 'SAMPLE ROW:' is ever printed.
C2_ReadFailurePrintsOneLine ==
  (importable /\ file.fault # "none") =>
    /\ out \in {<<>>, <<"Error: " \o file.exc.msg>>}
    /\ pc = "except" => e = file.exc /\ out = <<>>
    /\ pc = "done" => out = <<"Error: " \o file.exc.msg>>

C2_Witness ==
  /\ pc = "done"
  /\ file.fault = "row1"
  /\ out = <<"Error: 'NoneType' object is not subscriptable">>

\* C3: a run that has ended has exit status 0, on the success path and on every
\* failure path: the failure was caught by the handler of line 26 and its
\* message is the last line printed.
C3_ExitStatusZero ==
  pc = "done" =>
    /\ exit_status = 0
    /\ e # NoExc => (out # <<>> /\ out[Len(out)] = "Error: " \o e.msg)

\* C4: when the paired header values are pairwise distinct as mapping keys, the
\* record built by line 18 is exactly the pairs (H[i], R[i]) for i up to
\* min(len(H), len(R)), in column order; headers beyond len(R) and values beyond
\* len(H) are left out, and no error is raised.
C4_ZipPairsByPosition ==
  (JustZipped /\ ~HasDuplicate) =>
    /\ sample = Pairs(headers, row_data)
    /\ Len(sample) = NumPaired
    /\ e = NoExc

\* 2 headers and 1 value: only the first pair
C4_Witness ==
  /\ JustZipped
  /\ headers = <<StrA, PyInt(1)>>
  /\ row_data = <<PyBool(TRUE)>>
  /\ sample = << <<StrA, PyBool(TRUE)>> >>

\* C5: row 2 is read only when the sheet has at least 2 rows; on a sheet with
\* fewer than 2 rows the sample row is empty whatever row 1 holds, and the
\* report shows the headers array of all of row 1 and the empty object {}.
C5_NoSecondRowGivesEmptyObject ==
  /\ row_data # <<>> => file.max_row >= 2
  /\ (file.fault = "none" /\ file.max_row < 2) =>
       /\ row_data = <<>>
       /\ sample = <<>>
       /\ (pc = "done" /\ e = NoExc) =>
            /\ out[2] = dumps_list(file.row1).text
            /\ out[5] = "{}"

C5_Witness ==
  /\ pc = "done"
  /\ file.max_row = 1
  /\ file.row1 = <<StrA, PyInt(1)>>
  /\ out = <<"HEADERS:", "[\n  \"A\",\n  1\n]", "", "SAMPLE ROW:", "{}">>

\* C6: in the printed sample object, a value read from a date/time cell is the
\* ISO-8601 text of that date/time, and any other value (text, number, boolean,
\* empty) is the cell value read from row 2.
C6_DatesPrintedAsIsoText ==
  (pc = "done" /\ e = NoExc) =>
    /\ out[5] = dumps_dict(sample).text
    /\ \A p \in 1..Len(sample) :
         \E i \in 1..NumPaired :
           /\ KeyEq(headers[i], sample[p][1])
           /\ LET v == row_data[LastPos(i)]
              IN sample[p][2] =
                   IF v.type \in {"datetime", "date", "time"}
                   THEN [type |-> "str", text |-> IsoText(v), num |-> 0, dt |-> <<>>]
                   ELSE v

C6_Witness ==
  /\ pc = "done"
  /\ e = NoExc
  /\ row_data = <<PyDatetime(<<2024, 1, 15, 10, 30, 0>>), PyNone>>
  /\ out[5] = "{\n  \"A\": \"2024-01-15T10:30:00\",\n  \"1\": null\n}"

\* C7: when several paired header positions hold the same mapping key, the
\* record built by line 18 holds exactly one entry for that key, whose value is
\* the sample value at the last such position; no error is raised and the
\* record has fewer entries than min(len(headers), len(row)).
C7_DuplicateHeaderLastWins ==
  (JustZipped /\ HasDuplicate) =>
    /\ \A i \in 1..NumPaired :
         /\ Cardinality({p \in 1..Len(sample) : KeyEq(sample[p][1], headers[i])}) = 1
         /\ \A p \in 1..Len(sample) :
              KeyEq(sample[p][1], headers[i]) => sample[p][2] = row_data[LastPos(i)]
    /\ Len(sample) < NumPaired
    /\ e = NoExc

C7_Witness ==
  /\ JustZipped
  /\ headers = <<StrA, StrA>>
  /\ row_data = <<PyInt(1), PyNone>>
  /\ sample = << <<StrA, PyNone>> >>

\* C8: while no failure has occurred, the output is a prefix of HEADERS: label,
\* headers array of all of row 1, blank line, SAMPLE ROW: label, sample object,
\* each once and in this order; a successful run ends with all five, and the
\* sample object is printed only once the loop has converted every date/time.
C8_ReportOrder ==
  e = NoExc =>
    /\ Len(out) \in {0, 1, 2, 4, 5}
    /\ out = SubSeq(Report, 1, Len(out))
    /\ Len(out) >= 2 => out[2] = dumps_list(file.row1).text
    /\ Len(out) >= 4 <=> pc \in {"zip", "for", "print_sample", "done"}
    /\ Len(out) = 5 =>
         /\ it = Len(sample) + 1
         /\ \A p \in 1..Len(sample) : ~HasIsoformat(sample[p][2])
    /\ pc = "done" => Len(out) = 5

C8_Witness ==
  /\ pc = "done"
  /\ out = <<"HEADERS:", "[\n  \"a\\\"\\u00e9\",\n  null\n]", "", "SAMPLE ROW:",
             "{\n  \"a\\\"\\u00e9\": true,\n  \"null\": \"2024-01-15\"\n}">>

\* C10: no step changes the workbook; headers change only at line 8 and row_data
\* only at lines 10-12; an iteration of the loop keeps the record's keys, their
\* order and the number of entries, and changes no value but a date/time.
C10_Frame ==
  [][/\ file' = file
     /\ pc # "headers" => headers' = headers
     /\ pc # "row_data" => row_data' = row_data
     /\ pc = "for" =>
          /\ Len(sample') = Len(sample)
          /\ \A p \in 1..Len(sample) :
               /\ sample'[p][1] = sample[p][1]
               /\ ~HasIsoformat(sample[p][2]) => sample'[p][2] = sample[p][2]]_vars

\* the loop has converted the first of two entries
C10_Witness ==
  /\ pc = "print_sample"
  /\ headers = file.row1
  /\ row_data = file.row2
  /\ headers = <<PyInt(1), PyNone>>
  /\ row_data = <<PyDatetime(<<2024, 1, 15, 10, 30, 0>>), StrA>>
  /\ sample = << <<PyInt(1), [type |-> "str", text |-> IsoText(row_data[1]),
                              num |-> 0, dt |-> <<>>]>>,
                 <<PyNone, StrA>> >>

=============================================================================
